---- MODULE Spec2Model ----
(***************************************************************************)
(* A model of backend/services/data_access_layer.py: the DataAccessLayer   *)
(* over two SQLite stores (reports, prompt_templates).                      *)
(*                                                                         *)
(* Every repository method is one action.  The query helper                 *)
(* _execute_query is the operator ExecuteQuery: it walks the helper's       *)
(* statements in order (makedirs, connect, execute, commit, the             *)
(* last_insert_rowid query, fetch, close) and stops at the step at which    *)
(* the injected fault strikes, recording the steps it took in a trace.      *)
(*                                                                         *)
(* Optional values (Python None / SQL NULL) are sequences of length 0 or 1: *)
(* None is <<>> and a present value x is <<x>>.  Serialized JSON text is a  *)
(* sequence of tokens.                                                      *)
(***************************************************************************)
EXTENDS Integers, Sequences, FiniteSets, TLC

\* ------------------------------------------------------------------ bounds
\* Largest reading of the wall clock (whole seconds, as CURRENT_TIMESTAMP).
MaxClock == 1
\* Largest number of rows in the reports table.
MaxReports == 1
\* Largest number of rows in the prompt_templates table.
MaxPrompts == 5
\* Largest page size a listing asks for.
MaxLimit == 3

\* ------------------------------------------------------------ option values
None == <<>>

Some(x) == <<x>>

IsNone(o) == o = <<>>

\* ------------------------------------------------------------------- JSON
\* A Python dict is an insertion-ordered sequence of <<key, value>> pairs
\* with distinct keys.
Keys == {"a", "b"}

Vals == {"1", "2"}

RECURSIVE SeqsUpTo(_, _)
SeqsUpTo(S, n) ==
    IF n = 0 THEN {<<>>}
    ELSE LET shorter == SeqsUpTo(S, n - 1)
         IN  shorter \cup {Append(s, x) : s \in shorter, x \in S}

DictKeys(d) == {d[i][1] : i \in 1..Len(d)}

IsDict(d) == \A i, j \in 1..Len(d) : d[i][1] = d[j][1] => i = j

Dicts == {d \in SeqsUpTo(Keys \X Vals, Cardinality(Keys)) : IsDict(d)}

\* d[k] for a key k the dict holds.
DictGet(d, k) == d[CHOOSE i \in 1..Len(d) : d[i][1] = k][2]

\* The mathematical map a dict denotes; Python's == on dicts compares these.
AsMap(d) == [k \in DictKeys(d) |-> DictGet(d, k)]

\* d[k] = v: an existing key keeps its position, a new key is appended.
DictSet(d, k, v) ==
    IF k \in DictKeys(d)
    THEN [i \in 1..Len(d) |-> IF d[i][1] = k THEN <<k, v>> ELSE d[i]]
    ELSE Append(d, <<k, v>>)

\* An update that replaces the dict instead of merging into it.
DictReplace(d, u) == u

\* dict.update(u): the pairs of u are assigned in u's order.
RECURSIVE DictUpdate(_, _)
DictUpdate(d, u) ==
    IF u = <<>> THEN d
    ELSE DictUpdate(DictSet(d, u[1][1], u[1][2]), Tail(u))

RECURSIVE DumpItems(_)
DumpItems(d) ==
    IF d = <<>> THEN <<>>
    ELSE <<d[1][1], ":", d[1][2]>>
         \o (IF Len(d) > 1 THEN <<",">> ELSE <<>>)
         \o DumpItems(Tail(d))

\* json.dumps(d, ensure_ascii=False) of a dict, as a token sequence.
Dumps(d) == <<"{">> \o DumpItems(d) \o <<"}">>

\* The outcome of json.loads: a dict, another JSON value, or JSONDecodeError.
LoadError == [kind |-> "JSONDecodeError", dict |-> <<>>]

LoadOther == [kind |-> "other", dict |-> <<>>]

LoadDict(d) == [kind |-> "dict", dict |-> d]

\* Parses  key : value (, key : value)*  up to the closing brace; duplicate
\* keys are assigned in order, as json.loads does.
RECURSIVE LoadItems(_, _)
LoadItems(t, acc) ==
    IF Len(t) < 4 THEN LoadError
    ELSE IF ~(t[1] \in Keys /\ t[2] = ":" /\ t[3] \in Vals) THEN LoadError
    ELSE LET acc2 == DictSet(acc, t[1], t[3])
         IN  IF t[4] = "}"
             THEN (IF Len(t) = 4 THEN LoadDict(acc2) ELSE LoadError)
             ELSE IF t[4] = ","
             THEN LoadItems(SubSeq(t, 5, Len(t)), acc2)
             ELSE LoadError

\* json.loads(text) of a token sequence.
Loads(t) ==
    IF t = <<"[", "]">> THEN LoadOther
    ELSE IF Len(t) < 2 \/ t[1] /= "{" THEN LoadError
    ELSE IF t = <<"{", "}">> THEN LoadDict(<<>>)
    ELSE LoadItems(Tail(t), <<>>)

\* Stored metadata text that is not valid JSON (a truncated object), and
\* text that is valid JSON but no object (an empty array).
BadText == <<"{", "a", ":">>

NonDictText == <<"[", "]">>

\* ----------------------------------------------------------------- stores
Stores == {"reports", "prompts"}

\* One store as a statement sees it: whether the parent directory of the
\* store file exists, whether the store's table exists, and the table's rows
\* in rowid order (AUTOINCREMENT and no DELETE: the row at index i has id i).
StoreOf(dir, tbl, rows) == [dir |-> dir, tbl |-> tbl, rows |-> rows]

\* The outcome of one statement: an error class ("none" when it ran), the
\* table afterwards, the result rows of a SELECT and last_insert_rowid().
StmtOk(tbl, rows, result, lastid) ==
    [error |-> "none", tbl |-> tbl, rows |-> rows, result |-> result,
     lastid |-> lastid]

StmtError(db, class) ==
    [error |-> class, tbl |-> db.tbl, rows |-> db.rows, result |-> <<>>,
     lastid |-> 0]

\* CreateTable without IF NOT EXISTS: "table already exists" is an error.
CreateTableNoGuard(db) ==
    IF db.tbl THEN StmtError(db, "OperationalError")
    ELSE StmtOk(TRUE, db.rows, <<>>, 0)

\* CREATE TABLE IF NOT EXISTS reports (...) / prompt_templates (...).
CreateTable(db) == StmtOk(TRUE, db.rows, <<>>, 0)

\* INSERT INTO reports (original_filename, content, source_path, metadata,
\* status): id is assigned by AUTOINCREMENT, processed_at defaults to
\* CURRENT_TIMESTAMP, analysis_json to NULL; original_filename is NOT NULL.
InsertReportRow(db, p, now) ==
    IF ~db.tbl THEN StmtError(db, "OperationalError")
    ELSE IF p.original_filename = None THEN StmtError(db, "IntegrityError")
    ELSE LET id == Len(db.rows) + 1
             row == [id |-> id,
                     original_filename |-> p.original_filename[1],
                     content |-> p.content,
                     source_path |-> p.source_path,
                     processed_at |-> now,
                     status |-> p.status,
                     metadata |-> p.metadata,
                     analysis_json |-> None]
         IN  StmtOk(db.tbl, Append(db.rows, row), <<>>, id)

\* UpdateReportRow without `processed_at = CURRENT_TIMESTAMP` in the SET
\* clause.
UpdateReportRowNoRefresh(db, set, id, now) ==
    IF ~db.tbl THEN StmtError(db, "OperationalError")
    ELSE LET upd(r) == [f \in DOMAIN r |->
                          IF f \in DOMAIN set THEN set[f] ELSE r[f]]
         IN  StmtOk(db.tbl,
                    [i \in 1..Len(db.rows) |->
                       IF db.rows[i].id = id THEN upd(db.rows[i])
                       ELSE db.rows[i]],
                    <<>>, 0)

\* UpdateReportRow without its WHERE clause.
UpdateReportRowNoWhere(db, set, id, now) ==
    IF ~db.tbl THEN StmtError(db, "OperationalError")
    ELSE LET upd(r) == [f \in DOMAIN r |->
                          IF f \in DOMAIN set THEN set[f]
                          ELSE IF f = "processed_at" THEN now
                          ELSE r[f]]
         IN  StmtOk(db.tbl,
                    [i \in 1..Len(db.rows) |-> upd(db.rows[i])],
                    <<>>, 0)

\* UPDATE reports SET <fields>, processed_at = CURRENT_TIMESTAMP WHERE id = ?
\* `set` maps each column named in the SET clause to its new value.  A WHERE
\* clause that matches no row updates nothing and is no error.
UpdateReportRow(db, set, id, now) ==
    IF ~db.tbl THEN StmtError(db, "OperationalError")
    ELSE LET upd(r) == [f \in DOMAIN r |->
                          IF f \in DOMAIN set THEN set[f]
                          ELSE IF f = "processed_at" THEN now
                          ELSE r[f]]
         IN  StmtOk(db.tbl,
                    [i \in 1..Len(db.rows) |->
                       IF db.rows[i].id = id THEN upd(db.rows[i])
                       ELSE db.rows[i]],
                    <<>>, 0)

\* SelectExistsBySourcePath without its WHERE clause.
SelectExistsAnyRow(db, path) ==
    IF ~db.tbl THEN StmtError(db, "OperationalError")
    ELSE StmtOk(db.tbl, db.rows, IF db.rows /= <<>> THEN <<1>> ELSE <<>>, 0)

\* SELECT 1 FROM reports WHERE source_path = ? LIMIT 1
SelectExistsBySourcePath(db, path) ==
    IF ~db.tbl THEN StmtError(db, "OperationalError")
    ELSE StmtOk(db.tbl, db.rows,
                IF \E i \in 1..Len(db.rows) : db.rows[i].source_path = path
                THEN <<1>> ELSE <<>>,
                0)

\* InsertPromptRow on a table whose name column is not declared UNIQUE.
InsertPromptRowNoUnique(db, p, now) ==
    IF ~db.tbl THEN StmtError(db, "OperationalError")
    ELSE IF p.name = None \/ p.template_text = None
    THEN StmtError(db, "IntegrityError")
    ELSE LET id == Len(db.rows) + 1
             row == [id |-> id,
                     name |-> p.name[1],
                     template_text |-> p.template_text[1],
                     category |-> p.category,
                     created_at |-> now,
                     updated_at |-> now]
         IN  StmtOk(db.tbl, Append(db.rows, row), <<>>, id)

\* INSERT INTO prompt_templates (name, template_text, category): name is
\* UNIQUE NOT NULL, template_text NOT NULL, both timestamps default to
\* CURRENT_TIMESTAMP.
InsertPromptRow(db, p, now) ==
    IF ~db.tbl THEN StmtError(db, "OperationalError")
    ELSE IF p.name = None \/ p.template_text = None
    THEN StmtError(db, "IntegrityError")
    ELSE IF \E i \in 1..Len(db.rows) : db.rows[i].name = p.name[1]
    THEN StmtError(db, "IntegrityError")
    ELSE LET id == Len(db.rows) + 1
             row == [id |-> id,
                     name |-> p.name[1],
                     template_text |-> p.template_text[1],
                     category |-> p.category,
                     created_at |-> now,
                     updated_at |-> now]
         IN  StmtOk(db.tbl, Append(db.rows, row), <<>>, id)

\* A query: the statement and its bound parameters.
Query(stmt, params) == [stmt |-> stmt, params |-> params]

IsInsert(q) == q.stmt \in {"INSERT_REPORT", "INSERT_PROMPT"}

\* CREATE TABLE runs outside any transaction (the sqlite3 module opens one
\* only before INSERT, UPDATE, DELETE and REPLACE), so it is durable as soon
\* as it has executed.
IsDDL(q) == q.stmt = "CREATE_TABLE"

\* cursor = await db.execute(query, params)
Execute(db, q, now) ==
    CASE q.stmt = "CREATE_TABLE" -> CreateTable(db)
      [] q.stmt = "INSERT_REPORT" -> InsertReportRow(db, q.params, now)
      [] q.stmt = "UPDATE_REPORT" ->
             UpdateReportRow(db, q.params.set, q.params.id, now)
      [] q.stmt = "SELECT_EXISTS" ->
             SelectExistsBySourcePath(db, q.params.source_path)
      [] q.stmt = "INSERT_PROMPT" -> InsertPromptRow(db, q.params, now)

\* ----------------------------------------------------------- _execute_query
\* The step of _execute_query at which the environment makes the underlying
\* call fail: os.makedirs, aiosqlite.connect, db.execute(query), db.commit,
\* db.execute("SELECT last_insert_rowid()"), id_cursor.fetchone, and
\* cursor.fetchone / cursor.fetchall.  A fault at a step the call does not
\* reach has no effect.
Faults == {"none", "mkdir", "connect", "execute", "commit", "lastid",
           "idfetch", "fetch"}

Modes == {"commit", "fetch_one", "fetch_all", "plain"}

\* ProvisionDirectory with an except block that logs and does not re-raise.
ProvisionDirectorySwallow(db, fault) ==
    IF db.dir THEN [raised |-> FALSE, dir |-> TRUE, trace |-> <<>>]
    ELSE IF fault = "mkdir"
    THEN [raised |-> FALSE, dir |-> FALSE, trace |-> <<"makedirs">>]
    ELSE [raised |-> FALSE, dir |-> TRUE, trace |-> <<"makedirs">>]

\* Lines 56-63: create the parent directory of the store file if it is
\* missing; a failure is logged and re-raised, outside the try of line 65.
ProvisionDirectory(db, fault) ==
    IF db.dir THEN [raised |-> FALSE, dir |-> TRUE, trace |-> <<>>]
    ELSE IF fault = "mkdir"
    THEN [raised |-> TRUE, dir |-> FALSE, trace |-> <<"makedirs">>]
    ELSE [raised |-> FALSE, dir |-> TRUE, trace |-> <<"makedirs">>]

\* What the body of the `async with` block leaves behind: whether it raised
\* and at which step, the value it returns, the table as committed, the
\* cursors it left open on the connection, and the calls it made.
Body(error, value, tbl, rows, cursors, trace) ==
    [error |-> error, value |-> value, tbl |-> tbl, rows |-> rows,
     cursors |-> cursors, trace |-> trace]

\* Lines 70-76: after the commit of an INSERT, query last_insert_rowid() on a
\* second cursor, close that cursor and return the id; other committed
\* statements return None.  The first cursor is not closed on this path.
AfterCommit(q, r, fault) ==
    LET t == <<"execute", "commit">>
    IN  IF ~IsInsert(q) THEN Body("none", None, r.tbl, r.rows, 1, t)
        ELSE IF fault = "lastid"
        THEN Body("lastid", None, r.tbl, r.rows, 1, t \o <<"execute_id">>)
        ELSE IF fault = "idfetch"
        THEN Body("idfetch", None, r.tbl, r.rows, 2,
                  t \o <<"execute_id", "fetchone_id">>)
        ELSE Body("none", Some(r.lastid), r.tbl, r.rows, 1,
                  t \o <<"execute_id", "fetchone_id", "close_id_cursor">>)

\* Lines 67-86: the body of the `async with`, on the open connection.  An
\* INSERT or UPDATE that has executed is durable only once db.commit() has
\* returned: leaving the block without it rolls the statement back.
RunStatement(db, q, mode, fault, now) ==
    LET r == Execute(db, q, now)
        durable == IsDDL(q) /\ r.error = "none" /\ fault /= "execute"
        tblNow == IF durable THEN r.tbl ELSE db.tbl
    IN  IF fault = "execute"
        THEN Body("execute", None, db.tbl, db.rows, 0, <<"execute">>)
        ELSE IF r.error /= "none"
        THEN Body(r.error, None, db.tbl, db.rows, 0, <<"execute">>)
        ELSE IF mode = "commit"
        THEN (IF fault = "commit"
              THEN Body("commit", None, tblNow, db.rows, 1,
                        <<"execute", "commit">>)
              ELSE AfterCommit(q, r, fault))
        ELSE IF mode = "fetch_one"
        THEN (IF fault = "fetch"
              THEN Body("fetch", None, tblNow, db.rows, 1,
                        <<"execute", "fetchone">>)
              ELSE Body("none",
                        IF r.result = <<>> THEN None ELSE Some(r.result[1]),
                        tblNow, db.rows, 0,
                        <<"execute", "fetchone", "close_cursor">>))
        ELSE IF mode = "fetch_all"
        THEN (IF fault = "fetch"
              THEN Body("fetch", None, tblNow, db.rows, 1,
                        <<"execute", "fetchall">>)
              ELSE Body("none", Some(r.result), tblNow, db.rows, 0,
                        <<"execute", "fetchall", "close_cursor">>))
        ELSE Body("none", None, tblNow, db.rows, 0,
                  <<"execute", "close_cursor">>)

\* ConnExit for a connection opened without `async with` and never closed.
ConnExitNoClose(conn, cursors) == [conn |-> conn, cursors |-> cursors]

\* Leaving `async with aiosqlite.connect(...)`, normally or by an exception:
\* the connection is closed, and with it every cursor still open on it.
ConnExit(conn, cursors) == [conn |-> 0, cursors |-> 0]

\* The outcome of a store access: whether it raised and where, the value
\* returned, the store afterwards, the handles (connections, cursors) it
\* still holds, and the calls it made in order.
Outcome(error, value, dir, tbl, rows, held, trace) ==
    [error |-> error, value |-> value, dir |-> dir, tbl |-> tbl,
     rows |-> rows, held |-> held, trace |-> trace]

NoHandles == [conn |-> 0, cursors |-> 0]

\* Lines 30-94.  error is "none" on a normal return and otherwise names the
\* step whose exception the helper re-raised to its caller.
ExecuteQuery(db, q, mode, fault, now) ==
    LET d == ProvisionDirectory(db, fault)
    IN  IF d.raised
        THEN Outcome("mkdir", None, d.dir, db.tbl, db.rows, NoHandles, d.trace)
        ELSE IF fault = "connect"
        THEN Outcome("connect", None, d.dir, db.tbl, db.rows, NoHandles,
                     d.trace \o <<"connect">>)
        ELSE LET b == RunStatement(db, q, mode, fault, now)
             IN  Outcome(b.error, b.value, d.dir, b.tbl, b.rows,
                         ConnExit(1, b.cursors),
                         d.trace \o <<"connect">> \o b.trace
                                 \o <<"close_connection">>)

\* Lines 191-195, 372-376 and 399-403: the three read methods that open their
\* own connection instead of calling _execute_query.  Nothing creates the
\* parent directory here, so connecting fails when it is missing.  `result`
\* is what the SELECT yields when it runs.
DirectRead(db, result, mode, fault) ==
    IF ~db.dir \/ fault = "connect"
    THEN Outcome("connect", None, db.dir, db.tbl, db.rows, NoHandles,
                 <<"connect">>)
    ELSE IF ~db.tbl \/ fault = "execute"
    THEN Outcome(IF fault = "execute" THEN "execute" ELSE "OperationalError",
                 None, db.dir, db.tbl, db.rows, ConnExit(1, 0),
                 <<"connect", "execute", "close_connection">>)
    ELSE IF fault = "fetch"
    THEN Outcome("fetch", None, db.dir, db.tbl, db.rows, ConnExit(1, 1),
                 <<"connect", "execute", "fetch", "close_connection">>)
    ELSE Outcome("none",
                 IF mode = "fetch_all" THEN Some(result)
                 ELSE IF result = <<>> THEN None ELSE Some(result[1]),
                 db.dir, db.tbl, db.rows, ConnExit(1, 0),
                 <<"connect", "execute", "fetch", "close_cursor",
                   "close_connection">>)

\* The coroutines that may run update_report_metadata at the same time on the
\* one event loop.
Callers == {"c1", "c2"}

\* A call of update_report_metadata by one caller: where it stands ("idle":
\* not called, "merging": resumed from the await of line 282 with the report
\* read, "done": returned), its arguments, the metadata text it read, the
\* order of its read and of its write among the store accesses of all
\* callers (0: not made), the failure that struck it and the value returned.
Task(pc, id, update, text, readAt, wroteAt, error, ret) ==
    [pc |-> pc, id |-> id, update |-> update, current_metadata_str |-> text,
     readAt |-> readAt, wroteAt |-> wroteAt, error |-> error, ret |-> ret]

IdleTask == Task("idle", 0, <<>>, None, 0, 0, "none", FALSE)

\* ------------------------------------------------------------------ state
VARIABLES
    dirExists,    \* store -> the parent directory of the store file exists
    tableExists,  \* store -> the store's table has been created
    reports,      \* rows of the reports table, in id order
    prompts,      \* rows of the prompt_templates table, in id order
    clock,        \* the wall clock, in whole seconds
    tieOrder,     \* how this build of the engine orders rows with equal keys
    held,         \* store -> connections and cursors the layer holds open
    last,         \* the most recent call: method, arguments, outcome
    scan,         \* the pages of the listing in progress (consecutive offsets)
    inserted,     \* source paths of the report inserts tried / succeeded
    tasks         \* caller -> its update_report_metadata call in progress

vars == <<dirExists, tableExists, reports, prompts, clock, tieOrder, held,
          last, scan, inserted, tasks>>

NoArgs == [none |-> TRUE]

\* The record of a call: the method and its arguments, the clock when it was
\* made, the rows of the table it works on as they were before it, "none" or
\* the failure that struck, whether the method raised to its caller instead
\* of returning ret, and the calls its store accesses made.
Call(op, args, before, error, raised, ret, trace) ==
    [op |-> op, args |-> args, at |-> clock, before |-> before,
     error |-> error, raised |-> raised, ret |-> ret, trace |-> trace]

NoCall ==
    [op |-> "none", args |-> NoArgs, at |-> 0, before |-> <<>>,
     error |-> "none", raised |-> FALSE, ret |-> None, trace |-> <<>>]

NoScan == [limit |-> 0, pages |-> <<>>, failed |-> FALSE]

DbReports == StoreOf(dirExists["reports"], tableExists["reports"], reports)

DbPrompts == StoreOf(dirExists["prompts"], tableExists["prompts"], prompts)

\* The state after DataAccessLayer.__init__ (lines 15-28), which only keeps
\* the two paths: nothing has been created yet.
Init ==
    /\ dirExists = [s \in Stores |-> FALSE]
    /\ tableExists = [s \in Stores |-> FALSE]
    /\ reports = <<>>
    /\ prompts = <<>>
    /\ clock = 0
    /\ tieOrder \in {"asc", "desc"}
    /\ held = [s \in Stores |-> NoHandles]
    /\ last = NoCall
    /\ scan = NoScan
    /\ inserted = [tried |-> {}, ok |-> {}]
    /\ tasks = [c \in Callers |-> IdleTask]

\* The store `store` after a store access with outcome o.
StoreEffect(store, o) ==
    /\ dirExists' = [dirExists EXCEPT ![store] = o.dir]
    /\ tableExists' = [tableExists EXCEPT ![store] = o.tbl]
    /\ held' = [held EXCEPT ![store] = o.held]
    /\ IF store = "reports"
       THEN reports' = o.rows /\ UNCHANGED prompts
       ELSE prompts' = o.rows /\ UNCHANGED reports

\* ------------------------------------------------------------ environment
\* A second of wall-clock time passes.
Tick ==
    /\ clock < MaxClock
    /\ clock' = clock + 1
    /\ UNCHANGED <<dirExists, tableExists, reports, prompts, tieOrder, held,
                   last, scan, inserted, tasks>>

\* The store file is shared: another program writes metadata text that this
\* layer did not serialize into a report row (the case lines 295-297 and
\* 298-303 of update_report_metadata provide for).
ForeignMetadataWrite(id, text) ==
    /\ id \in 1..Len(reports)
    /\ reports[id].metadata /= Some(text)
    /\ reports' = [reports EXCEPT ![id].metadata = Some(text)]
    /\ last' = NoCall
    /\ UNCHANGED <<dirExists, tableExists, prompts, clock, tieOrder, held,
                   scan, inserted, tasks>>

\* ------------------------------------------------------- the helper itself
\* _execute_query called on its own (lines 30-94): whatever raised inside it
\* reaches its caller.
ExecuteQueryCall(store, q, mode, fault) ==
    \E o \in {ExecuteQuery(IF store = "reports" THEN DbReports ELSE DbPrompts,
                           q, mode, fault, clock)} :
       /\ Len(o.rows) <= (IF store = "reports" THEN MaxReports ELSE MaxPrompts)
       /\ StoreEffect(store, o)
       /\ last' = Call("_execute_query",
                       [store |-> store, stmt |-> q.stmt, mode |-> mode,
                        fault |-> fault],
                       IF store = "reports" THEN reports ELSE prompts,
                       o.error, o.error /= "none", o.value, o.trace)
       /\ scan' = NoScan
       /\ UNCHANGED <<clock, tieOrder, inserted, tasks>>

\* --------------------------------------------------------- schema (96-141)
\* initialize_databases: _create_reports_table, then _create_prompts_table;
\* an error raised by the first skips the second, and neither is caught.
InitializeDatabases(fault1, fault2) ==
    \E o1 \in {ExecuteQuery(DbReports, Query("CREATE_TABLE", NoArgs),
                            "commit", fault1, clock)},
       o2 \in {ExecuteQuery(DbPrompts, Query("CREATE_TABLE", NoArgs),
                            "commit", fault2, clock)} :
       LET first == o1.error /= "none"
       IN  /\ dirExists' = [dirExists EXCEPT !["reports"] = o1.dir,
                               !["prompts"] = IF first THEN @ ELSE o2.dir]
           /\ tableExists' = [tableExists EXCEPT !["reports"] = o1.tbl,
                               !["prompts"] = IF first THEN @ ELSE o2.tbl]
           /\ held' = [held EXCEPT !["reports"] = o1.held,
                               !["prompts"] = IF first THEN @ ELSE o2.held]
           /\ last' = Call("initialize_databases", NoArgs, <<>>,
                           IF first THEN o1.error ELSE o2.error,
                           first \/ o2.error /= "none", None,
                           IF first THEN o1.trace ELSE o1.trace \o o2.trace)
           /\ UNCHANGED <<reports, prompts, clock, tieOrder, scan, inserted,
                            tasks>>

\* ------------------------------------------------------ report repository
\* Line 159: json.dumps(metadata, ensure_ascii=False) if metadata else None.
\* None and the empty dict are both falsy.
MetadataStr(metadata) ==
    IF metadata = None \/ metadata[1] = <<>> THEN None
    ELSE Some(Dumps(metadata[1]))

\* Lines 162-176: the id _execute_query returned, or None when it raised.
InsertResult(o) ==
    IF o.error = "none" THEN [raised |-> FALSE, ret |-> o.value]
    ELSE [raised |-> FALSE, ret |-> None]

\* UpdateResult with a handler that lets the error through.
UpdateResultReraise(o) ==
    IF o.error = "none" THEN [raised |-> FALSE, ret |-> TRUE]
    ELSE [raised |-> TRUE, ret |-> FALSE]

\* Lines 227-239, 255-267 and 292-303: True, or False when it raised.
UpdateResult(o) ==
    IF o.error = "none" THEN [raised |-> FALSE, ret |-> TRUE]
    ELSE [raised |-> FALSE, ret |-> FALSE]

\* Lines 196-204, 377-382: dict(row) when a row was fetched, None when none
\* was or when the read raised.
RowResult(o) ==
    IF o.error = "none" THEN [raised |-> FALSE, ret |-> o.value]
    ELSE [raised |-> FALSE, ret |-> None]

\* Lines 318-323: result is not None, or False when it raised.
ExistsResult(o) ==
    IF o.error = "none" THEN [raised |-> FALSE, ret |-> o.value /= None]
    ELSE [raised |-> FALSE, ret |-> FALSE]

\* Lines 404-409: the fetched rows as a list, [] when it raised.
ListResult(o) ==
    IF o.error = "none" THEN [raised |-> FALSE, ret |-> o.value[1]]
    ELSE [raised |-> FALSE, ret |-> <<>>]

\* insert_report_data (lines 143-176).
InsertReportData(original_filename, content, source_path, metadata, status, fault) ==
    \E o \in {ExecuteQuery(DbReports,
                           Query("INSERT_REPORT",
                                 [original_filename |-> original_filename,
                                  content |-> content,
                                  source_path |-> source_path,
                                  metadata |-> MetadataStr(metadata),
                                  status |-> status]),
                           "commit", fault, clock)} :
    \E r \in {InsertResult(o)} :
       /\ Len(reports) < MaxReports
       /\ StoreEffect("reports", o)
       /\ last' = Call("insert_report_data",
                       [original_filename |-> original_filename,
                        content |-> content, source_path |-> source_path,
                        metadata |-> metadata, status |-> status],
                       reports, o.error, r.raised, r.ret, o.trace)
       /\ inserted' = [tried |-> inserted.tried \cup {source_path},
                       ok |-> IF r.ret /= None
                              THEN inserted.ok \cup {source_path}
                              ELSE inserted.ok]
       /\ UNCHANGED <<clock, tieOrder, scan, tasks>>

\* SELECT ... FROM reports WHERE id = ? (line 189).
SelectReportById(rows, report_id) ==
    SelectSeq(rows, LAMBDA r : r.id = report_id)

\* The read of get_report_by_id (lines 189-195) in the current state.
ReadReport(report_id, fault) ==
    DirectRead(DbReports, SelectReportById(reports, report_id), "fetch_one",
               fault)

\* get_report_by_id (lines 178-204).
GetReportById(report_id, fault) ==
    \E o \in {ReadReport(report_id, fault)} :
    \E r \in {RowResult(o)} :
       /\ StoreEffect("reports", o)
       /\ last' = Call("get_report_by_id", [id |-> report_id], reports,
                       o.error, r.raised, r.ret, o.trace)
       /\ UNCHANGED <<clock, tieOrder, scan, inserted, tasks>>

\* Lines 219-225: status is always set, content only when it is not None.
StatusFields(status, processed_content) ==
    IF processed_content = None THEN [status |-> status]
    ELSE [status |-> status, content |-> processed_content]

\* update_report_status (lines 207-239).
UpdateReportStatus(report_id, status, processed_content, fault) ==
    \E o \in {ExecuteQuery(DbReports,
                           Query("UPDATE_REPORT",
                                 [set |-> StatusFields(status,
                                                       processed_content),
                                  id |-> report_id]),
                           "commit", fault, clock)} :
    \E r \in {UpdateResult(o)} :
       /\ StoreEffect("reports", o)
       /\ last' = Call("update_report_status",
                       [id |-> report_id, status |-> status,
                        content |-> processed_content],
                       reports, o.error, r.raised, r.ret, o.trace)
       /\ UNCHANGED <<clock, tieOrder, scan, inserted, tasks>>

\* update_report_analysis (lines 241-267).
UpdateReportAnalysis(report_id, analysis_data, status, fault) ==
    \E o \in {ExecuteQuery(DbReports,
                           Query("UPDATE_REPORT",
                                 [set |-> [analysis_json |->
                                              Some(analysis_data),
                                           status |-> status],
                                  id |-> report_id]),
                           "commit", fault, clock)} :
    \E r \in {UpdateResult(o)} :
       /\ StoreEffect("reports", o)
       /\ last' = Call("update_report_analysis",
                       [id |-> report_id, status |-> status,
                        analysis |-> analysis_data],
                       reports, o.error, r.raised, r.ret, o.trace)
       /\ UNCHANGED <<clock, tieOrder, scan, inserted, tasks>>

\* check_report_exists_by_source_path (lines 305-323).
CheckReportExistsBySourcePath(source_path, fault) ==
    \E o \in {ExecuteQuery(DbReports,
                           Query("SELECT_EXISTS",
                                 [source_path |-> source_path]),
                           "fetch_one", fault, clock)} :
    \E r \in {ExistsResult(o)} :
       /\ StoreEffect("reports", o)
       /\ last' = Call("check_report_exists_by_source_path",
                       [source_path |-> source_path], reports, o.error,
                       r.raised, r.ret, o.trace)
       /\ UNCHANGED <<clock, tieOrder, scan, inserted, tasks>>

\* MergeMetadata with a parser that takes text it cannot parse for the empty
\* dict.
MergeMetadataLenient(current_metadata_str, metadata_update) ==
    LET falsy == current_metadata_str = None \/ current_metadata_str[1] = <<>>
    IN  (LET loaded == IF falsy THEN LoadDict(<<>>)
                       ELSE Loads(current_metadata_str[1])
         IN  [error |-> "none",
              text |-> Dumps(DictUpdate(loaded.dict, metadata_update))])

\* Lines 287-290: the stored text is parsed when it is truthy (else the empty
\* dict is taken), metadata_update is merged over it and the result is
\* serialized.  json.loads raises JSONDecodeError on text that is no JSON; a
\* JSON value that is no object has no update method (AttributeError).
MergeMetadata(current_metadata_str, metadata_update) ==
    LET falsy == current_metadata_str = None \/ current_metadata_str[1] = <<>>
    IN  (LET loaded == IF falsy THEN LoadDict(<<>>)
                       ELSE Loads(current_metadata_str[1])
         IN  IF loaded.kind = "JSONDecodeError"
             THEN [error |-> "JSONDecodeError", text |-> <<>>]
             ELSE IF loaded.kind /= "dict"
             THEN [error |-> "AttributeError", text |-> <<>>]
             ELSE [error |-> "none",
                   text |-> Dumps(DictUpdate(loaded.dict, metadata_update))])

\* WriteMetadata through _execute_query called with commit left False.
WriteMetadataNoCommit(report_id, text, fault) ==
    ExecuteQuery(DbReports,
                 Query("UPDATE_REPORT",
                       [set |-> [metadata |-> Some(text)], id |-> report_id]),
                 "plain", fault, clock)

\* Lines 291-294: write the merged text back and refresh processed_at.
WriteMetadata(report_id, text, fault) ==
    ExecuteQuery(DbReports,
                 Query("UPDATE_REPORT",
                       [set |-> [metadata |-> Some(text)], id |-> report_id]),
                 "commit", fault, clock)

\* update_report_metadata (lines 269-303): a read through get_report_by_id,
\* then, unless the report is missing or its metadata does not parse, a
\* write through _execute_query.
UpdateReportMetadata(report_id, metadata_update, fault1, fault2) ==
    LET args == [id |-> report_id, update |-> metadata_update]
    IN  \E o1 \in {ReadReport(report_id, fault1)} :
        \E current_report \in {RowResult(o1).ret} :
           /\ IF current_report = None
              THEN /\ StoreEffect("reports", o1)
                   /\ last' = Call("update_report_metadata", args, reports,
                                   IF o1.error /= "none" THEN o1.error
                                   ELSE "report_not_found",
                                   FALSE, FALSE, o1.trace)
              ELSE \E m \in {MergeMetadata(current_report[1].metadata,
                                           metadata_update)} :
                   IF m.error /= "none"
                   THEN /\ StoreEffect("reports", o1)
                        /\ last' = Call("update_report_metadata", args,
                                        reports, m.error, FALSE, FALSE,
                                        o1.trace)
                   ELSE \E o2 \in {WriteMetadata(report_id, m.text, fault2)} :
                        \E r \in {UpdateResult(o2)} :
                           /\ StoreEffect("reports",
                                 [o2 EXCEPT !.held =
                                     [conn |-> o1.held.conn + o2.held.conn,
                                      cursors |-> o1.held.cursors
                                                  + o2.held.cursors]])
                           /\ last' = Call("update_report_metadata", args,
                                           reports, o2.error, r.raised,
                                           r.ret, o1.trace \o o2.trace)
           /\ UNCHANGED <<clock, tieOrder, scan, inserted, tasks>>

\* The place of the next store access in the order of the accesses the
\* calls in progress have made.
NextAccess ==
    LET made == {tasks[c].readAt : c \in Callers}
                   \cup {tasks[c].wroteAt : c \in Callers}
    IN  1 + CHOOSE m \in made : \A x \in made : x <= m

\* update_report_metadata up to its first suspension (lines 280-285): caller
\* c calls it and the read of get_report_by_id is made.  A missing report
\* ends the call with False; otherwise the coroutine holds the report it
\* read and other coroutines may run before it goes on.
MetadataRead(c, report_id, metadata_update, fault) ==
    /\ tasks[c].pc = "idle"
    /\ \E o1 \in {ReadReport(report_id, fault)} :
       \E current_report \in {RowResult(o1).ret} :
          /\ StoreEffect("reports", o1)
          /\ IF current_report = None
             THEN LET error == IF o1.error /= "none" THEN o1.error
                               ELSE "report_not_found"
                  IN  /\ tasks' = [tasks EXCEPT ![c] =
                                      Task("done", report_id, metadata_update,
                                           None, NextAccess, 0, error, FALSE)]
                      /\ last' = Call("update_report_metadata",
                                      [id |-> report_id,
                                       update |-> metadata_update],
                                      reports, error, FALSE, FALSE, o1.trace)
             ELSE /\ tasks' = [tasks EXCEPT ![c] =
                                  Task("merging", report_id, metadata_update,
                                       current_report[1].metadata, NextAccess,
                                       0, "none", FALSE)]
                  /\ UNCHANGED last
    /\ UNCHANGED <<clock, tieOrder, scan, inserted>>

\* update_report_metadata from where it was suspended to its return (lines
\* 286-303): the merge into the metadata text the call read, which may be
\* older than the text now stored, and the write.
MetadataWrite(c, fault) ==
    /\ tasks[c].pc = "merging"
    /\ LET t == tasks[c]
           args == [id |-> t.id, update |-> t.update]
       IN  \E m \in {MergeMetadata(t.current_metadata_str, t.update)} :
           IF m.error /= "none"
           THEN /\ tasks' = [tasks EXCEPT ![c] =
                                [t EXCEPT !.pc = "done", !.error = m.error,
                                          !.ret = FALSE]]
                /\ last' = Call("update_report_metadata", args, reports,
                                m.error, FALSE, FALSE, <<>>)
                /\ UNCHANGED <<dirExists, tableExists, reports, prompts, held>>
           ELSE \E o2 \in {WriteMetadata(t.id, m.text, fault)} :
                \E r \in {UpdateResult(o2)} :
                   /\ StoreEffect("reports", o2)
                   /\ tasks' = [tasks EXCEPT ![c] =
                                   [t EXCEPT !.pc = "done",
                                             !.wroteAt = NextAccess,
                                             !.error = o2.error,
                                             !.ret = r.ret]]
                   /\ last' = Call("update_report_metadata", args, reports,
                                   o2.error, r.raised, r.ret, o2.trace)
    /\ UNCHANGED <<clock, tieOrder, scan, inserted>>

\* ------------------------------------------------------ prompt repository
\* insert_prompt_template (lines 325-351).
InsertPromptTemplate(name, template_text, category, fault) ==
    \E o \in {ExecuteQuery(DbPrompts,
                           Query("INSERT_PROMPT",
                                 [name |-> name,
                                  template_text |-> template_text,
                                  category |-> category]),
                           "commit", fault, clock)} :
    \E r \in {InsertResult(o)} :
       /\ Len(prompts) < MaxPrompts
       /\ StoreEffect("prompts", o)
       /\ last' = Call("insert_prompt_template",
                       [name |-> name, template_text |-> template_text,
                        category |-> category],
                       prompts, o.error, r.raised, r.ret, o.trace)
       /\ scan' = IF o.rows /= prompts THEN NoScan ELSE scan
       /\ UNCHANGED <<clock, tieOrder, inserted, tasks>>

\* SELECT ... FROM prompt_templates WHERE name = ? (line 370).
SelectPromptByName(rows, name) == SelectSeq(rows, LAMBDA r : r.name = name)

\* The read of get_prompt_template_by_name (lines 370-376).
ReadPrompt(name, fault) ==
    DirectRead(DbPrompts, SelectPromptByName(prompts, name), "fetch_one",
               fault)

\* get_prompt_template_by_name (lines 359-382).
GetPromptTemplateByName(name, fault) ==
    \E o \in {ReadPrompt(name, fault)} :
    \E r \in {RowResult(o)} :
       /\ StoreEffect("prompts", o)
       /\ last' = Call("get_prompt_template_by_name", [name |-> name],
                       prompts, o.error, r.raised, r.ret, o.trace)
       /\ UNCHANGED <<clock, tieOrder, scan, inserted, tasks>>

\* ORDER BY updated_at DESC: r1 comes before r2.  SQL leaves the order of
\* rows with equal keys to the engine; a given build orders them the same
\* way in every query (tieOrder: by ascending or by descending rowid).
Before(r1, r2, order) ==
    \/ r1.updated_at > r2.updated_at
    \/ /\ r1.updated_at = r2.updated_at
       /\ IF order = "asc" THEN r1.id < r2.id ELSE r1.id > r2.id

OrderByUpdatedDesc(rows, order) ==
    LET n == Len(rows)
        rank(i) == 1 + Cardinality({j \in 1..n : Before(rows[j], rows[i], order)})
    IN  [k \in 1..n |-> rows[CHOOSE i \in 1..n : rank(i) = k]]

\* LIMIT ? OFFSET ?: a negative limit is no limit, a negative offset is 0.
LimitOffset(rows, limit, offset) ==
    LET from == IF offset < 0 THEN 0 ELSE offset
        upto == IF limit < 0 THEN Len(rows)
                ELSE IF from + limit > Len(rows) THEN Len(rows)
                ELSE from + limit
    IN  SubSeq(rows, from + 1, upto)

\* SelectAllPrompts with the two parameters bound as (offset, limit).
SelectAllPromptsSwapped(rows, order, limit, offset) ==
    LET page == LimitOffset(OrderByUpdatedDesc(rows, order), offset, limit)
    IN  [i \in 1..Len(page) |->
           [id |-> page[i].id, name |-> page[i].name,
            category |-> page[i].category, updated_at |-> page[i].updated_at]]

\* SELECT id, name, category, updated_at FROM prompt_templates
\* ORDER BY updated_at DESC LIMIT ? OFFSET ? (line 397).
SelectAllPrompts(rows, order, limit, offset) ==
    LET page == LimitOffset(OrderByUpdatedDesc(rows, order), limit, offset)
    IN  [i \in 1..Len(page) |->
           [id |-> page[i].id, name |-> page[i].name,
            category |-> page[i].category, updated_at |-> page[i].updated_at]]

\* get_all_prompt_templates (lines 384-409).  scan keeps the pages of a
\* listing made page by page: it starts at offset 0 and grows while the next
\* call asks for the same limit at the next offset.
GetAllPromptTemplates(limit, offset, fault) ==
    \E o \in {DirectRead(DbPrompts,
                         SelectAllPrompts(prompts, tieOrder, limit, offset),
                         "fetch_all", fault)} :
    \E r \in {ListResult(o)} :
       /\ StoreEffect("prompts", o)
       /\ last' = Call("get_all_prompt_templates",
                       [limit |-> limit, offset |-> offset], prompts,
                       o.error, r.raised, r.ret, o.trace)
       /\ scan' = IF offset = 0
                  THEN [limit |-> limit, pages |-> <<r.ret>>,
                        failed |-> o.error /= "none"]
                  ELSE IF scan.limit = limit
                          /\ offset = Len(scan.pages) * limit
                  THEN [limit |-> limit, pages |-> Append(scan.pages, r.ret),
                        failed |-> scan.failed \/ o.error /= "none"]
                  ELSE NoScan
       /\ UNCHANGED <<clock, tieOrder, inserted, tasks>>

\* ---------------------------------------------------------- specifications
ReportIds == 1..MaxReports

\* The faults that can strike a commit-mode call of _execute_query, a
\* fetch-mode call of it, and a read on a connection of the method's own.
CommitFaults == {"none", "mkdir", "connect", "execute", "commit", "lastid",
                 "idfetch"}

FetchFaults == {"none", "mkdir", "connect", "execute", "fetch"}

ReadFaults == {"none", "connect", "execute", "fetch"}

\* At most one fault per method call.
FaultPairs(F1, F2) ==
    {<<f, "none">> : f \in F1} \cup {<<"none", f>> : f \in F2}

InitAsc == Init /\ tieOrder = "asc"

\* --- Spec: every method, with every fault, over one source path, one status
\* and one prompt name.
Next ==
    \/ \E ff \in FaultPairs(CommitFaults, CommitFaults) :
          InitializeDatabases(ff[1], ff[2])
    \/ \E fn \in {None, Some("f")}, f \in CommitFaults :
          InsertReportData(fn, None, "p1", None, "s0", f)
    \/ \E id \in ReportIds, f \in ReadFaults : GetReportById(id, f)
    \/ \E id \in ReportIds, f \in CommitFaults :
          UpdateReportStatus(id, "s0", None, f)
    \/ \E id \in ReportIds, f \in CommitFaults :
          UpdateReportAnalysis(id, "x", "s0", f)
    \/ \E id \in ReportIds, ff \in FaultPairs(ReadFaults, CommitFaults) :
          UpdateReportMetadata(id, <<<<"a", "2">>>>, ff[1], ff[2])
    \/ \E f \in FetchFaults : CheckReportExistsBySourcePath("p1", f)
    \/ \E n \in {None, Some("n1")}, f \in CommitFaults :
          InsertPromptTemplate(n, Some("t"), None, f)
    \/ \E f \in ReadFaults : GetPromptTemplateByName("n1", f)
    \/ \E f \in ReadFaults : GetAllPromptTemplates(2, 0, f)

Spec == InitAsc /\ [][Next]_vars

\* --- SpecExec: the helper called on its own, in each of its four modes, with
\* each fault, for the statements the layer issues.
ReportStatements ==
    {Query("CREATE_TABLE", NoArgs),
     Query("INSERT_REPORT",
           [original_filename |-> Some("f"), content |-> None,
            source_path |-> "p1", metadata |-> None, status |-> "s0"]),
     Query("UPDATE_REPORT", [set |-> [status |-> "s1"], id |-> 1]),
     Query("SELECT_EXISTS", [source_path |-> "p1"])}

PromptStatements ==
    {Query("CREATE_TABLE", NoArgs),
     Query("INSERT_PROMPT",
           [name |-> Some("n1"), template_text |-> Some("t"),
            category |-> None])}

NextExec ==
    \/ \E q \in ReportStatements, mode \in Modes, f \in Faults :
          ExecuteQueryCall("reports", q, mode, f)
    \/ \E q \in PromptStatements, mode \in Modes, f \in Faults :
          ExecuteQueryCall("prompts", q, mode, f)

SpecExec == InitAsc /\ [][NextExec]_vars

\* --- SpecMeta: report metadata.  Callers insert dicts whose values are "1"
\* and merge in dicts whose values are "2"; a foreign writer stores text that
\* is no JSON, or JSON that is no object.
InsertDicts == {d \in Dicts : \A i \in 1..Len(d) : d[i][2] = "1"}

UpdateDicts == {d \in Dicts : \A i \in 1..Len(d) : d[i][2] = "2"}

NextMeta ==
    \/ Tick
    \/ InitializeDatabases("none", "none")
    \/ \E md \in {None} \cup {Some(d) : d \in InsertDicts} :
          InsertReportData(Some("f"), None, "p1", md, "s0", "none")
    \/ \E id \in ReportIds, u \in UpdateDicts, f \in {"none", "commit"} :
          UpdateReportMetadata(id, u, "none", f)
    \/ \E id \in ReportIds, text \in {BadText, NonDictText} :
          ForeignMetadataWrite(id, text)

SpecMeta == InitAsc /\ [][NextMeta]_vars

\* --- SpecStatus: report status, content, timestamps and source paths.
SourcePaths == {"p1", "p2"}

NextStatus ==
    \/ Tick
    \/ InitializeDatabases("none", "none")
    \/ \E p \in SourcePaths, f \in {"none", "execute", "lastid"} :
          InsertReportData(Some("f"), None, p, None, "s0", f)
    \/ \E id \in ReportIds : GetReportById(id, "none")
    \/ \E id \in ReportIds, c \in {None, Some("c")}, f \in {"none", "commit"} :
          UpdateReportStatus(id, "done", c, f)
    \/ \E p \in SourcePaths, f \in {"none", "fetch"} :
          CheckReportExistsBySourcePath(p, f)

SpecStatus == InitAsc /\ [][NextStatus]_vars

\* --- SpecPaging: listings page by page: every call either starts a listing
\* at offset 0 or asks for the page after the ones already read.  The k-th
\* template inserted is named NameSeq[k].
NameSeq == <<"n1", "n2", "n3", "n4", "n5", "n6", "n7", "n8">>

NextPaging ==
    \/ Tick
    \/ InitializeDatabases("none", "none")
    \/ InsertPromptTemplate(Some(NameSeq[Len(prompts) + 1]), Some("t"), None,
                            "none")
    \/ \E limit \in 1..MaxLimit :
       \E offset \in {0, Len(scan.pages) * limit} :
          /\ offset <= MaxPrompts
          /\ GetAllPromptTemplates(limit, offset, "none")

SpecPaging == Init /\ [][NextPaging]_vars

\* --- SpecPrompts: prompt templates by name.
NextPrompts ==
    \/ Tick
    \/ InitializeDatabases("none", "none")
    \/ \E n \in {"n1", "n2"}, t \in {"t1", "t2"}, c \in {None, Some("c")},
          f \in {"none", "commit"} :
          InsertPromptTemplate(Some(n), Some(t), c, f)
    \/ \E n \in {"n1", "n2"} : GetPromptTemplateByName(n, "none")

SpecPrompts == InitAsc /\ [][NextPrompts]_vars

\* ------------------------------------------------------------------ claims
RepositoryOps ==
    {"insert_report_data", "get_report_by_id", "update_report_status",
     "update_report_analysis", "update_report_metadata",
     "check_report_exists_by_source_path", "insert_prompt_template",
     "get_prompt_template_by_name", "get_all_prompt_templates"}

\* The failures of the store while a statement runs: a fault while
\* connecting, executing, committing or fetching, a statement the engine
\* rejects (OperationalError) and a constraint violation (IntegrityError).
ExecutionErrors ==
    {"connect", "execute", "commit", "lastid", "idfetch", "fetch",
     "OperationalError", "IntegrityError"}

\* What a repository method returns for "failed".
FailureValue(op) ==
    IF op \in {"update_report_status", "update_report_analysis",
               "update_report_metadata",
               "check_report_exists_by_source_path"}
    THEN FALSE
    ELSE None

ReturnsFailureValue ==
    /\ ~last.raised
    /\ last.ret = FailureValue(last.op)

\* C1 as stated: a repository method turns a failure of the store into its
\* failure value and raises nothing, but a failure to create the parent
\* directory of the store is raised to the method's caller.
C1_DirectoryFailurePropagates ==
    last.op \in RepositoryOps =>
        /\ last.error \in ExecutionErrors => ReturnsFailureValue
        /\ last.error = "mkdir" => last.raised

\* C1 as amended: a repository method turns every failure of the store, a
\* failure to create the parent directory included, into its failure value
\* and raises nothing; the Schema Initializer, which catches nothing, is the
\* one that raises what the helper raised.
C1_FailureIsReturned ==
    /\ last.op \in RepositoryOps /\ last.error \in ExecutionErrors \cup {"mkdir"}
          => ReturnsFailureValue
    /\ last.op = "initialize_databases" => (last.raised <=> last.error /= "none")

\* A status update whose directory could not be created returned False.
C1_Witness ==
    /\ last.op = "update_report_status"
    /\ last.error = "mkdir"
    /\ last.trace = <<"makedirs">>
    /\ last.ret = FALSE
    /\ ~last.raised

\* The map a metadata column denotes: NULL stands for the empty map.
StoredMap(metadata) ==
    IF metadata = None THEN AsMap(<<>>) ELSE AsMap(Loads(metadata[1]).dict)

\* u merged over m: u's keys take u's values, the other keys keep m's.
MergeMap(m, u) ==
    [k \in DOMAIN m \cup DOMAIN u |-> IF k \in DOMAIN u THEN u[k] ELSE m[k]]

\* C2: after a successful update_report_metadata(id, U) the stored metadata
\* of report id is JSON text for the shallow merge of U over the map stored
\* before the call (NULL counting as the empty map): U's keys map to U's
\* values, the other keys keep their values, and no other key is present.
C2_MergeSemantics ==
    last.op = "update_report_metadata" /\ last.ret = TRUE =>
        LET id == last.args.id
        IN  /\ id \in 1..Len(last.before)
            /\ reports[id].metadata /= None
            /\ Loads(reports[id].metadata[1]).kind = "dict"
            /\ StoredMap(reports[id].metadata)
                  = MergeMap(StoredMap(last.before[id].metadata),
                             AsMap(last.args.update))

\* {a: 1, b: 1} merged with {b: 2} gave {a: 1, b: 2}.
C2_Witness ==
    /\ last.op = "update_report_metadata"
    /\ last.ret = TRUE
    /\ last.args.id = 1
    /\ last.args.update = <<<<"b", "2">>>>
    /\ last.before[1].metadata = Some(Dumps(<<<<"a", "1">>, <<"b", "1">>>>))
    /\ reports[1].metadata = Some(Dumps(<<<<"a", "1">>, <<"b", "2">>>>))

\* C4 as stated: when insert_report_data(.., metadata = m, ..) with a map m
\* returns id i, get_report_by_id(i) returns a record whose metadata field
\* is text that json.loads turns into a map equal to m.
C4_MetadataRoundTrip ==
    /\ last.op = "insert_report_data"
    /\ last.ret /= None
    /\ last.args.metadata /= None
    => LET record == RowResult(ReadReport(last.ret[1], "none")).ret
       IN  /\ record /= None
           /\ record[1].metadata /= None
           /\ Loads(record[1].metadata[1]).kind = "dict"
           /\ AsMap(Loads(record[1].metadata[1]).dict)
                 = AsMap(last.args.metadata[1])

\* The two cases of C10, read off the table as it was before the call: no
\* report has the id, or the report's metadata text is not JSON.
NoSuchReport == last.args.id \notin 1..Len(last.before)

MalformedMetadata ==
    /\ last.args.id \in 1..Len(last.before)
    /\ last.before[last.args.id].metadata /= None
    /\ Loads(last.before[last.args.id].metadata[1]).kind = "JSONDecodeError"

\* C10: update_report_metadata(id, U) returns False and leaves every report
\* row as it was (metadata, processed_at and all other fields) when no report
\* has that id and when the report's stored metadata text is not JSON.
C10_NothingWritten ==
    last.op = "update_report_metadata" /\ (NoSuchReport \/ MalformedMetadata)
        => /\ last.ret = FALSE
           /\ ~last.raised
           /\ reports = last.before

\* A non-empty update met metadata that is no JSON, at a time when writing
\* would have moved processed_at.
C10_Witness ==
    /\ last.op = "update_report_metadata"
    /\ MalformedMetadata
    /\ last.error = "JSONDecodeError"
    /\ last.args.update /= <<>>
    /\ last.before[last.args.id].processed_at < last.at
    /\ last.ret = FALSE

\* A successful update_report_status of a report that exists.
StatusUpdated ==
    /\ last.op = "update_report_status"
    /\ last.args.id \in 1..Len(last.before)
    /\ last.ret = TRUE

\* C3 as stated: after update_report_status(id, s) on an existing report,
\* get_report_by_id(id).status is s and the row's processed_at is strictly
\* greater than it was immediately before the call.
C3_StrictlyLater ==
    StatusUpdated =>
        LET record == RowResult(ReadReport(last.args.id, "none")).ret
        IN  /\ record /= None
            /\ record[1].status = last.args.status
            /\ record[1].processed_at
                  > last.before[last.args.id].processed_at

\* C3 as amended: after update_report_status(id, s) has returned True for an
\* existing report, get_report_by_id(id).status is s and the row's
\* processed_at is the clock's reading, in whole seconds, at the call: not
\* less than the value before the call, and equal to it when the call falls
\* in the second in which that value was written.
C3_StatusAndTimestamp ==
    StatusUpdated =>
        LET record == RowResult(ReadReport(last.args.id, "none")).ret
        IN  /\ record /= None
            /\ record[1].status = last.args.status
            /\ record[1].processed_at = last.at
            /\ record[1].processed_at
                  >= last.before[last.args.id].processed_at

\* An update that changed the status and moved processed_at.
C3_Witness ==
    /\ StatusUpdated
    /\ last.before[last.args.id].status /= last.args.status
    /\ reports[last.args.id].status = last.args.status
    /\ reports[last.args.id].processed_at
          > last.before[last.args.id].processed_at

\* C9: a check_report_exists_by_source_path(p) whose own query does not fail
\* returns True once an insert_report_data with source path p has returned an
\* id, and False as long as no insert with source path p was ever made.
C9_ExistsBySourcePath ==
    last.op = "check_report_exists_by_source_path" /\ last.error = "none" =>
        /\ last.args.source_path \in inserted.ok => last.ret = TRUE
        /\ last.args.source_path \notin inserted.tried => last.ret = FALSE

\* With a report of another path stored, the check of a path never inserted
\* returned False.
C9_Witness ==
    /\ last.op = "check_report_exists_by_source_path"
    /\ last.error = "none"
    /\ last.args.source_path \notin inserted.tried
    /\ inserted.ok /= {}
    /\ reports /= <<>>
    /\ last.ret = FALSE

\* The pages of a listing, one after the other.
RECURSIVE Flatten(_)
Flatten(pages) ==
    IF pages = <<>> THEN <<>> ELSE Head(pages) \o Flatten(Tail(pages))

Min(a, b) == IF a < b THEN a ELSE b

\* C5: the pages get_all_prompt_templates(L, 0), (L, L), (L, 2L), ... return
\* with no write in between: page k holds min(L, max(0, N - (k-1)L)) of the N
\* stored templates (two, two and one for N = 5, L = 2), the pages together
\* never list a template twice, list stored templates only, run from the most
\* recently updated to the least, and list every template once the offsets
\* have passed N.
C5_Pagination ==
    ~scan.failed /\ scan.pages /= <<>> =>
        LET L == scan.limit
            N == Len(prompts)
            all == Flatten(scan.pages)
        IN  /\ \A k \in 1..Len(scan.pages) :
                  Len(scan.pages[k])
                     = Min(L, IF N > (k - 1) * L THEN N - (k - 1) * L ELSE 0)
            /\ \A i, j \in 1..Len(all) :
                  i < j => /\ all[i].id /= all[j].id
                           /\ all[i].updated_at >= all[j].updated_at
            /\ \A i \in 1..Len(all) :
                  /\ all[i].id \in 1..N
                  /\ all[i].name = prompts[all[i].id].name
                  /\ all[i].category = prompts[all[i].id].category
                  /\ all[i].updated_at = prompts[all[i].id].updated_at
            /\ Len(scan.pages) * L >= N =>
                  {all[i].id : i \in 1..Len(all)} = 1..N

\* Five templates listed in pages of two: two, two and one, with templates
\* of one updated_at on either side of a page boundary and templates of
\* different updated_at in the listing.
C5_Witness ==
    /\ ~scan.failed
    /\ Len(prompts) = 5
    /\ scan.limit = 2
    /\ Len(scan.pages) = 3
    /\ Len(scan.pages[1]) = 2 /\ Len(scan.pages[2]) = 2
    /\ Len(scan.pages[3]) = 1
    /\ scan.pages[1][2].updated_at = scan.pages[2][1].updated_at
    /\ scan.pages[1][1].updated_at > scan.pages[3][1].updated_at

\* An insert_prompt_template whose name a stored template already has.
DuplicateInsert ==
    /\ last.op = "insert_prompt_template"
    /\ last.args.name /= None
    /\ \E i \in 1..Len(last.before) : last.before[i].name = last.args.name[1]

\* C6: no two stored prompt templates share a name; an insert under the name
\* of a stored template returns None, adds no row, and leaves that template
\* retrievable by get_prompt_template_by_name with every field as it was.
C6_UniqueNames ==
    /\ \A i, j \in 1..Len(prompts) :
          prompts[i].name = prompts[j].name => i = j
    /\ DuplicateInsert =>
          /\ last.ret = None
          /\ prompts = last.before
          /\ \A i \in 1..Len(last.before) :
                last.before[i].name = last.args.name[1] =>
                   RowResult(ReadPrompt(last.args.name[1], "none")).ret
                      = Some(last.before[i])

\* A second insert under a stored name, with another text and no fault of the
\* store: the engine rejected it.
C6_Witness ==
    /\ DuplicateInsert
    /\ last.error = "IntegrityError"
    /\ \E i \in 1..Len(prompts) :
          /\ prompts[i].name = last.args.name[1]
          /\ Some(prompts[i].template_text) /= last.args.template_text
    /\ last.ret = None

\* The calls of _execute_query at which each fault strikes.
StepsOf(fault) ==
    CASE fault = "mkdir" -> {"makedirs"}
      [] fault = "connect" -> {"connect"}
      [] fault = "execute" -> {"execute"}
      [] fault = "commit" -> {"commit"}
      [] fault = "lastid" -> {"execute_id"}
      [] fault = "idfetch" -> {"fetchone_id"}
      [] fault = "fetch" -> {"fetchone", "fetchall"}
      [] OTHER -> {}

\* The call that failed in the last _execute_query: the position in its trace
\* of the step its fault strikes, 0 when the call did not come to that step.
FailedAt ==
    LET hits == {i \in 1..Len(last.trace) :
                    last.trace[i] \in StepsOf(last.args.fault)}
    IN  IF hits = {} THEN 0 ELSE CHOOSE i \in hits : \A j \in hits : i <= j

\* C7: a call of _execute_query in which connecting, executing, committing or
\* fetching fails, or whose statement the engine rejects, raises to its caller
\* and returns nothing, having made no further call but the closing of the
\* connection; a failing os.makedirs raises before any connect or execute,
\* leaving the store as it was; a call in which nothing fails does not raise.
C7_ExecutorReraises ==
    last.op = "_execute_query" =>
        /\ FailedAt > 0 =>
              /\ last.raised
              /\ last.ret = None
              /\ last.error = last.args.fault
              /\ SubSeq(last.trace, FailedAt + 1, Len(last.trace))
                    \in {<<>>, <<"close_connection">>}
        /\ last.error \in {"OperationalError", "IntegrityError"} =>
              /\ last.raised
              /\ last.ret = None
              /\ SubSeq(last.trace, Len(last.trace) - 1, Len(last.trace))
                    = <<"execute", "close_connection">>
        /\ last.args.fault = "mkdir" /\ FailedAt > 0 =>
              /\ last.trace = <<"makedirs">>
              /\ ~dirExists[last.args.store]
              /\ (IF last.args.store = "reports" THEN reports ELSE prompts)
                    = last.before
        /\ last.raised <=>
              \/ FailedAt > 0
              \/ last.error \in {"OperationalError", "IntegrityError"}

\* os.makedirs failed: the call raised having made no other call.
C7_Witness ==
    /\ last.op = "_execute_query"
    /\ last.args.fault = "mkdir"
    /\ last.raised
    /\ last.trace = <<"makedirs">>

\* C8: between calls the layer holds no open connection and no open cursor
\* on either store, whichever mode the last _execute_query ran in and at
\* whichever step it raised.
C8_NoHandlesHeld ==
    \A s \in Stores : held[s] = NoHandles

\* A call that raised while fetching the new row id, with the statement's
\* cursor and the id cursor both open, holds nothing afterwards.
C8_Witness ==
    /\ last.op = "_execute_query"
    /\ last.error = "idfetch"
    /\ last.raised
    /\ "connect" \in {last.trace[i] : i \in 1..Len(last.trace)}
    /\ held[last.args.store] = NoHandles

\* --- SpecMissing: updates of reports by id, with ids that have a row and
\* ids that have none.
UpdateIds == 1..(MaxReports + 1)

NextMissing ==
    \/ Tick
    \/ InitializeDatabases("none", "none")
    \/ InsertReportData(Some("f"), None, "p1", None, "s0", "none")
    \/ \E id \in UpdateIds, c \in {None, Some("c")}, f \in {"none", "commit"} :
          UpdateReportStatus(id, "done", c, f)
    \/ \E id \in UpdateIds, f \in {"none", "commit"} :
          UpdateReportAnalysis(id, "x", "done", f)

SpecMissing == InitAsc /\ [][NextMissing]_vars

\* An update_report_status or update_report_analysis of an id no row has, on
\* a reports table that exists, in which no access to the store failed.
MissingIdUpdate ==
    /\ last.op \in {"update_report_status", "update_report_analysis"}
    /\ \A i \in 1..Len(last.before) : last.before[i].id /= last.args.id
    /\ tableExists["reports"]
    /\ last.error \notin Faults \ {"none"}

\* C13: update_report_status and update_report_analysis of an id for which
\* no report row exists return True, and the reports table holds the same
\* rows with the same fields after the call as before it.
C13_MissingIdSucceeds ==
    MissingIdUpdate =>
        /\ last.ret = TRUE
        /\ ~last.raised
        /\ reports = last.before

\* With a report stored, an update of the status and content of another id
\* returned True.
C13_Witness ==
    /\ MissingIdUpdate
    /\ last.op = "update_report_status"
    /\ last.args.content /= None
    /\ reports /= <<>>
    /\ last.ret = TRUE

\* --- SpecInit: the schema initializer called in every state of the two
\* stores: nothing created, one table created and the other not (an earlier
\* call failed half way), tables empty, tables with rows.
InitFaults == {"none", "mkdir", "connect", "commit"}

NextInit ==
    \/ Tick
    \/ \E ff \in FaultPairs(InitFaults, InitFaults) :
          InitializeDatabases(ff[1], ff[2])
    \/ InsertReportData(Some("f"), None, "p1", None, "s0", "none")
    \/ \E n \in {"n1", "n2"} :
          InsertPromptTemplate(Some(n), Some("t"), None, "none")

SpecInit == InitAsc /\ [][NextInit]_vars

\* The two stores: directories, tables, rows, and the handles held on them.
stores == <<dirExists, tableExists, reports, prompts, held>>

\* C11: a call of initialize_databases in which no access to the store fails
\* does not raise, leaves both tables existing and every stored row as it
\* was; when both tables existed before it, and so when it follows another
\* such call, it changes nothing in either store.
C11_InitializeIdempotent ==
    [][InitializeDatabases("none", "none") =>
          /\ ~last'.raised
          /\ \A s \in Stores : tableExists'[s] /\ dirExists'[s]
          /\ reports' = reports
          /\ prompts' = prompts
          /\ (\A s \in Stores : tableExists[s]) => UNCHANGED stores
          /\ (last.op = "initialize_databases" /\ ~last.raised) =>
                UNCHANGED stores]_vars

\* The initializer has run, without raising, on stores that both held rows.
C11_Witness ==
    /\ last.op = "initialize_databases"
    /\ ~last.raised
    /\ last.error = "none"
    /\ reports /= <<>>
    /\ prompts /= <<>>
    /\ \A s \in Stores : tableExists[s]

\* --- SpecRace: two coroutines calling update_report_metadata, each resumed
\* in any order at its await; another program may write the metadata too.
RaceDicts == {<<<<"a", "2">>>>, <<<<"b", "2">>>>}

NextRace ==
    \/ InitializeDatabases("none", "none")
    \/ \E md \in {None, Some(<<<<"a", "1">>>>)} :
          InsertReportData(Some("f"), None, "p1", md, "s0", "none")
    \/ \E c \in Callers, id \in ReportIds, u \in RaceDicts :
          MetadataRead(c, id, u, "none")
    \/ \E c \in Callers, f \in {"none", "commit"} : MetadataWrite(c, f)
    \/ \E id \in ReportIds : ForeignMetadataWrite(id, BadText)

SpecRace == InitAsc /\ [][NextRace]_vars

\* Callers w and l have both returned from update_report_metadata of
\* one report, both having read the same metadata text before either wrote,
\* w having written first and l last with no failure of the store, and
\* nothing else having happened to the store since l returned.
BothReadThenWrote(w, l) ==
    /\ tasks[w].pc = "done" /\ tasks[l].pc = "done"
    /\ tasks[w].id = tasks[l].id
    /\ tasks[w].current_metadata_str = tasks[l].current_metadata_str
    /\ tasks[w].wroteAt > 0
    /\ tasks[w].readAt < tasks[w].wroteAt
    /\ tasks[l].readAt < tasks[w].wroteAt
    /\ tasks[w].wroteAt < tasks[l].wroteAt
    /\ tasks[w].error = "none" /\ tasks[l].error = "none"
    /\ last.op = "update_report_metadata"
    /\ last.args = [id |-> tasks[l].id, update |-> tasks[l].update]
    /\ last.error = "none"

\* C12: when two update_report_metadata calls on one report have both read
\* the same stored metadata before either wrote, both return True, and the
\* metadata stored at the end is what they read merged with the update of
\* the call that wrote last alone: a key that only the call that wrote first
\* added is absent from it.
C12_LostUpdate ==
    \A w, l \in Callers :
       BothReadThenWrote(w, l) =>
          LET stored == StoredMap(reports[tasks[l].id].metadata)
              read == StoredMap(tasks[l].current_metadata_str)
          IN  /\ tasks[w].ret = TRUE /\ tasks[l].ret = TRUE
              /\ stored = MergeMap(read, AsMap(tasks[l].update))
              /\ \A k \in DOMAIN AsMap(tasks[w].update) :
                    k \notin DOMAIN read
                       /\ k \notin DOMAIN AsMap(tasks[l].update)
                    => k \notin DOMAIN stored

\* The lost update: both calls read {"a": "1"}, the first wrote key "b", the
\* last wrote key "a", both returned True, and "b" is not stored.
C12_Witness ==
    \E w, l \in Callers :
       /\ BothReadThenWrote(w, l)
       /\ tasks[w].ret = TRUE /\ tasks[l].ret = TRUE
       /\ tasks[w].current_metadata_str /= None
       /\ tasks[w].update = <<<<"b", "2">>>>
       /\ tasks[l].update = <<<<"a", "2">>>>
       /\ "b" \notin DOMAIN StoredMap(reports[tasks[l].id].metadata)

====
